---- MODULE Spec2Model ----
(***************************************************************************)
(* Model of packages/@aws-cdk/aws-cloudwatch/lib/metric-util.ts:           *)
(* metricKey, MetricSet (addTopLevel / addOne), validateNoIdConflicts,     *)
(* metricGraphJson and allMetricsGraphJson.                                *)
(*                                                                         *)
(* Metric objects live in a heap (object id -> MetricConfig); an           *)
(* expression's usingMetrics is the ordered list of its (id, object)       *)
(* properties.  The key cached on an object under METRICKEY_SYMBOL is the  *)
(* variable memo.  JavaScript strings are TLA+ strings, so that joining    *)
(* with the separator is real string concatenation.                        *)
(*                                                                         *)
(* Model of packages/@aws-cdk/aws-batch/lib/container-definition.ts:       *)
(* the constructor of ContainerDefinition, addScratch, addUlimits and      *)
(* renderContainerDefinition, on the variable container.                   *)
(***************************************************************************)
EXTENDS Integers, Sequences, FiniteSets, TLC

VARIABLES heap, memo, metrics, metricById, metricByKey, calls, thrown, result,
          container

vars == <<heap, memo, metrics, metricById, metricByKey, calls, thrown, result,
          container>>

(***************************************************************************)
(* JavaScript values                                                       *)
(***************************************************************************)

\* An absent optional string (undefined) in a configuration or an entry.
Undefined == "<undefined>"

\* JavaScript truthiness of an optional string: undefined and '' are falsy.
Truthy(s) == s # Undefined /\ s # ""

\* Values of the options object of a rendered row.
Str(s) == <<"string", s>>

Num(n) == <<"number", n>>

Bool(b) == <<"boolean", b>>

JsUndefined == <<"undefined">>

OptStr(s) == IF s = Undefined THEN JsUndefined ELSE Str(s)

Digits == <<"0", "1", "2", "3", "4", "5", "6", "7", "8", "9">>

\* `${n}` for a non-negative integer n: its decimal representation.
RECURSIVE NumberToString(_)
NumberToString(n) ==
  IF n < 10 THEN Digits[n + 1]
  ELSE NumberToString(n \div 10) \o Digits[(n % 10) + 1]

\* parts.join(sep)
RECURSIVE JoinFrom(_, _, _)
JoinFrom(parts, sep, i) ==
  IF i > Len(parts) THEN ""
  ELSE IF i = Len(parts) THEN parts[i]
  ELSE parts[i] \o sep \o JoinFrom(parts, sep, i + 1)

Join(parts, sep) == JoinFrom(parts, sep, 1)

\* The identifiers and tags the model uses, in UTF-16 code unit order (the
\* order of Array.prototype.sort without a comparator).
CodeUnitOrder == <<"", "a", "b", "c", "d", "e", "m1", "x", "y">>

Rank(s) == CHOOSE i \in 1..Len(CodeUnitOrder) : CodeUnitOrder[i] = s

\* The elements of the set S of strings as a sorted array.
RECURSIVE SortStrings(_)
SortStrings(S) ==
  IF S = {} THEN <<>>
  ELSE LET least == CHOOSE s \in S : \A t \in S : Rank(s) <= Rank(t)
       IN <<least>> \o SortStrings(S \ {least})

Range(f) == {f[i] : i \in DOMAIN f}

\* The variable container where no ContainerDefinition is made.
NoContainer == [pc |-> "none"]

(***************************************************************************)
(* Metric objects: what toMetricConfig() returns                           *)
(***************************************************************************)

\* A MetricConfig with a metricStat and no mathExpression.  period is <<>>
\* (undefined) or <<seconds>>; dimensions is the (possibly empty) list.
StatConfig(ns, name, dims, statistic, period, region, account, label) ==
  [hasStat |-> TRUE, hasExpr |-> FALSE,
   namespace |-> ns, metricName |-> name, dimensions |-> dims,
   statistic |-> statistic, period |-> period,
   region |-> region, account |-> account,
   expression |-> "", usingMetrics |-> <<>>,
   label |-> label, color |-> Undefined]

\* A MetricConfig with a mathExpression and no metricStat.  usingMetrics is
\* the list of <<id, object>> in property (insertion) order.
ExprConfig(expression, usingMetrics, label) ==
  [hasStat |-> FALSE, hasExpr |-> TRUE,
   namespace |-> "", metricName |-> "", dimensions |-> <<>>,
   statistic |-> Undefined, period |-> <<>>,
   region |-> Undefined, account |-> Undefined,
   expression |-> expression, usingMetrics |-> usingMetrics,
   label |-> label, color |-> Undefined]

Dim(name, value) == [name |-> name, value |-> value]

\* Object.keys(usingMetrics)
UsingIds(um) == {um[i][1] : i \in 1..Len(um)}

\* usingMetrics[id]
UsingGet(um, id) == (CHOOSE i \in 1..Len(um) : um[i][1] = id)

\* A well-formed usingMetrics has one property per identifier.
DistinctIds(um) == \A i, j \in 1..Len(um) : um[i][1] = um[j][1] => i = j

(***************************************************************************)
(* metricKey                                                               *)
(***************************************************************************)

\* for (const dim of dimensions || []) { push(dim.name); push(dim.value) }
RECURSIVE DimParts(_, _)
DimParts(dims, i) ==
  IF i > Len(dims) THEN <<>>
  ELSE <<dims[i].name, dims[i].value>> \o DimParts(dims, i + 1)

\* The parts pushed for conf.metricStat.
StatParts(conf) ==
  <<conf.namespace, conf.metricName>>
    \o DimParts(conf.dimensions, 1)
    \o (IF Truthy(conf.statistic) THEN <<conf.statistic>> ELSE <<>>)
    \o (IF conf.period # <<>> THEN <<NumberToString(conf.period[1])>> ELSE <<>>)
    \o (IF Truthy(conf.region) THEN <<conf.region>> ELSE <<>>)
    \o (IF Truthy(conf.account) THEN <<conf.account>> ELSE <<>>)

\* Object.keys(usingMetrics).sort(), and the same without the sort.
KeyIdOrderUnsorted(um) == [i \in 1..Len(um) |-> um[i][1]]

KeyIdOrder(um) == SortStrings(UsingIds(um))

\* The parts pushed for conf.mathExpression, the sub-metrics' keys being
\* read from the memo m (where the recursive calls have just put them).
RECURSIVE ExprSubParts(_, _, _, _)
ExprSubParts(um, ids, m, i) ==
  IF i > Len(ids) THEN <<>>
  ELSE <<ids[i], m[um[UsingGet(um, ids[i])][2]][1]>>
         \o ExprSubParts(um, ids, m, i + 1)

ExprParts(conf, m) ==
  <<conf.expression>>
    \o ExprSubParts(conf.usingMetrics, KeyIdOrder(conf.usingMetrics), m, 1)

\* The string metricKey computes for an object whose sub-metrics are
\* memoized in m: rendering properties take no part.
ComputedKey(conf, m) ==
  Join((IF conf.hasExpr THEN ExprParts(conf, m) ELSE <<>>)
         \o (IF conf.hasStat THEN StatParts(conf) ELSE <<>>), "|")

\* The memo after metricKey(o): o and every object the call visited carry
\* their key.  An object that already has the property is not recomputed.
RECURSIVE MemoAfter(_, _, _)
RECURSIVE MemoAfterSubs(_, _, _, _, _)
MemoAfter(h, m, o) ==
  IF m[o] # <<>> THEN m
  ELSE LET conf == h[o]
           m1 == IF conf.hasExpr
                 THEN MemoAfterSubs(h, m, conf.usingMetrics,
                                    KeyIdOrder(conf.usingMetrics), 1)
                 ELSE m
       IN [m1 EXCEPT ![o] = <<ComputedKey(conf, m1)>>]

MemoAfterSubs(h, m, um, ids, i) ==
  IF i > Len(ids) THEN m
  ELSE MemoAfterSubs(h, MemoAfter(h, m, um[UsingGet(um, ids[i])][2]),
                     um, ids, i + 1)

\* The value metricKey(o) returns.
metricKey(h, m, o) == MemoAfter(h, m, o)[o][1]

EmptyMemo(h) == [o \in DOMAIN h |-> <<>>]

\* The key of an object by recomputation, whatever is memoized.
FreshKey(h, o) == metricKey(h, EmptyMemo(h), o)

(***************************************************************************)
(* MetricSet                                                               *)
(***************************************************************************)

\* A MetricSet right after construction, operating on objects whose cached
\* keys are m.  An entry is [metric, tag, id]; the maps hold the position of
\* the entry in metrics.  thrown is the error the running call has raised.
NewMetricSet(m) ==
  [metrics |-> <<>>, metricById |-> <<>>, metricByKey |-> <<>>,
   memo |-> m, thrown |-> ""]

\* map.set(k, v)
MapSet(map, k, v) == (k :> v) @@ map

\* The position of the entry found by key for a call with identifier id, 0
\* if there is none: an entry that has an id is not used when the call
\* brings an id too.
LookupByKeyOnlyWithoutId(s, key, id) ==
  IF key \in DOMAIN s.metricByKey /\ ~Truthy(id) THEN s.metricByKey[key] ELSE 0

LookupByKey(s, key, id) ==
  IF key \in DOMAIN s.metricByKey
  THEN LET e == s.metricByKey[key]
       IN IF Truthy(s.metrics[e].id) /\ Truthy(id) THEN 0 ELSE e
  ELSE 0

\* if (!entry.id && id) { entry.id = id }
WithId(entry, id) ==
  IF ~Truthy(entry.id) /\ Truthy(id) THEN [entry EXCEPT !.id = id] ELSE entry

\* if (!entry.tag && tag) { entry.tag = tag }
WithTagOverwriting(entry, tag) ==
  IF Truthy(tag) THEN [entry EXCEPT !.tag = tag] ELSE entry

WithTag(entry, tag) ==
  IF ~Truthy(entry.tag) /\ Truthy(tag) THEN [entry EXCEPT !.tag = tag] ELSE entry

\* An entry found by id must have the key of the metric being added:
\* metricKey(existingEntry.metric) !== key
IdKeyMismatchIgnored(entryKey, key) == FALSE

IdKeyMismatch(entryKey, key) == entryKey # key

\* The entry a registration of object metric creates.
NewEntry(metric) == [metric |-> metric, tag |-> Undefined, id |-> Undefined]

\* this.metrics.push(entry)
PushEntryFirst(ms, entry) == <<entry>> \o ms

PushEntry(ms, entry) == Append(ms, entry)

\* addOne(metric, tag, id) on the set s, sub-metrics included.  A set whose
\* call has thrown is left as it is (the exception unwinds the callers).
RECURSIVE AddOne(_, _, _, _, _)
RECURSIVE AddSubMetrics(_, _, _, _)
AddOne(h, s, metric, tag, id) ==
  IF s.thrown # "" THEN s
  ELSE
    LET m1 == MemoAfter(h, s.memo, metric)
        key == m1[metric][1]
        byId == IF Truthy(id) /\ id \in DOMAIN s.metricById
                THEN s.metricById[id] ELSE 0
        m2 == IF byId # 0 THEN MemoAfter(h, m1, s.metrics[byId].metric) ELSE m1
    IN IF byId # 0 /\ IdKeyMismatch(m2[s.metrics[byId].metric][1], key)
       THEN [s EXCEPT !.memo = m2, !.thrown = "CantHappen"]
       ELSE
         LET existing == IF byId # 0 THEN byId ELSE LookupByKey(s, key, id)
             pos == IF existing # 0 THEN existing ELSE Len(s.metrics) + 1
             old == IF existing # 0 THEN s.metrics[existing] ELSE NewEntry(metric)
             bindsId == ~Truthy(old.id) /\ Truthy(id)
             entry == WithTag(WithId(old, id), tag)
             s1 == [metrics |-> IF existing # 0
                                   THEN [s.metrics EXCEPT ![pos] = entry]
                                   ELSE PushEntry(s.metrics, entry),
                    metricById |-> IF bindsId THEN MapSet(s.metricById, id, pos)
                                   ELSE s.metricById,
                    metricByKey |-> IF existing # 0 THEN s.metricByKey
                                    ELSE MapSet(s.metricByKey, key, pos),
                    memo |-> m2,
                    thrown |-> ""]
         IN IF h[metric].hasExpr
            THEN AddSubMetrics(h, s1, h[metric].usingMetrics, 1)
            ELSE s1

\* for (const [subId, subMetric] of Object.entries(usingMetrics))
\*   this.addOne(subMetric, undefined, subId)
AddSubMetrics(h, s, um, i) ==
  IF i > Len(um) THEN s
  ELSE AddSubMetrics(h, AddOne(h, s, um[i][2], Undefined, um[i][1]), um, i + 1)

\* addTopLevel(tag, ...ms)
RECURSIVE AddTopLevelFrom(_, _, _, _, _)
AddTopLevelFrom(h, s, tag, ms, i) ==
  IF i > Len(ms) THEN s
  ELSE AddTopLevelFrom(h, AddOne(h, s, ms[i], tag, Undefined), tag, ms, i + 1)

AddTopLevelOp(h, s, tag, ms) == AddTopLevelFrom(h, s, tag, ms, 1)

\* The top-level addOne calls that addTopLevel(tag, ...ms) makes on s, each
\* with whether it returned: the ones after a throw are never made.
RECURSIVE Registrations(_, _, _, _, _)
Registrations(h, s, tag, ms, i) ==
  IF i > Len(ms) \/ s.thrown # "" THEN <<>>
  ELSE LET s1 == AddOne(h, s, ms[i], tag, Undefined)
       IN <<[tag |-> tag, metric |-> ms[i], ok |-> s1.thrown = ""]>>
            \o Registrations(h, s1, tag, ms, i + 1)

(***************************************************************************)
(* The metric objects of the MetricSet specifications                      *)
(***************************************************************************)

\* 1, 2: the same stat ref as two objects, the second with a label.
\* 3: a stat ref with another period.  4..8: expressions over them; 5 and 8
\* use one metric under two identifiers (as does 9), 6 and 7 reuse m1 for
\* another metric.
Pool ==
  << StatConfig("n", "m", <<>>, "Average", <<300>>, Undefined, Undefined, Undefined),
     StatConfig("n", "m", <<>>, "Average", <<300>>, Undefined, Undefined, "lbl"),
     StatConfig("n", "m", <<>>, "Average", <<60>>, Undefined, Undefined, Undefined),
     ExprConfig("m1*2", <<<<"m1", 1>>>>, Undefined),
     ExprConfig("a+b", <<<<"a", 1>>, <<"b", 2>>>>, Undefined),
     ExprConfig("m1+1", <<<<"m1", 3>>>>, "lbl"),
     ExprConfig("e+m1", <<<<"e", 4>>, <<"m1", 3>>>>, Undefined),
     ExprConfig("a+b", <<<<"b", 2>>, <<"a", 1>>>>, Undefined),
     ExprConfig("m1+x", <<<<"m1", 1>>, <<"x", 2>>>>, Undefined) >>

Tags == {"left", "right"}

\* The most top-level registrations made on one MetricSet.
MaxRegs == 3

\* The most metrics passed to one addTopLevel call.
MaxArgs == 2

ArgLists(n) == UNION {[1..k -> DOMAIN Pool] : k \in 1..n}

Init ==
  /\ heap = Pool
  /\ memo = EmptyMemo(heap)
  /\ metrics = <<>>
  /\ metricById = <<>>
  /\ metricByKey = <<>>
  /\ calls = <<>>
  /\ thrown = ""
  /\ result = <<"none">>
  /\ container = NoContainer

\* The MetricSet the variables hold, ready for its next call.
ThisSet ==
  [metrics |-> metrics, metricById |-> metricById, metricByKey |-> metricByKey,
   memo |-> memo, thrown |-> ""]

\* mset.addTopLevel(tag, ...ms)
AddTopLevel(tag, ms) ==
  /\ Len(calls) + Len(ms) <= MaxRegs
  /\ LET s == AddTopLevelOp(heap, ThisSet, tag, ms)
     IN /\ metrics' = s.metrics
        /\ metricById' = s.metricById
        /\ metricByKey' = s.metricByKey
        /\ memo' = s.memo
        /\ thrown' = s.thrown
  /\ calls' = calls \o Registrations(heap, ThisSet, tag, ms, 1)
  /\ UNCHANGED <<heap, result, container>>

Next == \E tag \in Tags, ms \in ArgLists(MaxArgs) : AddTopLevel(tag, ms)

Spec == Init /\ [][Next]_vars

(***************************************************************************)
(* validateNoIdConflicts                                                   *)
(***************************************************************************)

\* existing && metricKey(existing) !== metricKey(subMetric)
IdConflictNever(hasExisting, existingKey, subKey) == FALSE

IdConflict(hasExisting, existingKey, subKey) ==
  hasExisting /\ existingKey # subKey

\* visit(metric), on v = [seen, memo, thrown, detail]: seen maps an id to
\* the object last seen under it; detail names the id and the two objects
\* of the error message.
RECURSIVE Visit(_, _, _)
RECURSIVE VisitUsing(_, _, _, _)
Visit(h, v, metric) ==
  IF v.thrown # "" THEN v
  ELSE IF h[metric].hasStat /\ h[metric].hasExpr
       THEN [v EXCEPT !.thrown = "BothVariants"]
  ELSE IF h[metric].hasStat THEN v
  ELSE IF h[metric].hasExpr THEN VisitUsing(h, v, h[metric].usingMetrics, 1)
  ELSE [v EXCEPT !.thrown = "NoVariant"]

VisitUsing(h, v, um, i) ==
  IF i > Len(um) \/ v.thrown # "" THEN v
  ELSE
    LET id == um[i][1]
        subMetric == um[i][2]
        hasExisting == id \in DOMAIN v.seen
        m1 == IF hasExisting THEN MemoAfter(h, v.memo, v.seen[id]) ELSE v.memo
        m2 == IF hasExisting THEN MemoAfter(h, m1, subMetric) ELSE m1
    IN IF IdConflict(hasExisting,
                     IF hasExisting THEN m2[v.seen[id]][1] ELSE "",
                     IF hasExisting THEN m2[subMetric][1] ELSE "")
       THEN [v EXCEPT !.memo = m2, !.thrown = "IdConflict",
                      !.detail = <<id, subMetric, v.seen[id]>>]
       ELSE VisitUsing(h,
                       Visit(h, [v EXCEPT !.memo = m2,
                                          !.seen = MapSet(v.seen, id, subMetric)],
                             subMetric),
                       um, i + 1)

validateNoIdConflicts(h, m, expression) ==
  Visit(h, [seen |-> <<>>, memo |-> m, thrown |-> "", detail |-> <<>>],
        expression)

(***************************************************************************)
(* metricGraphJson and allMetricsGraphJson                                 *)
(***************************************************************************)

\* The period that is not rendered.
DefaultPeriodSeconds == 300

Obj(f) == <<"object", f>>

\* options[k] = v
OptSet(options, k, v) == (k :> v) @@ options

\* dropUndefined(x): the properties of x whose value is not undefined.
DropUndefinedKeepingAll(x) == x

DropUndefined(x) ==
  LET keep == {k \in DOMAIN x : x[k] # JsUndefined}
  IN [k \in keep |-> x[k]]

\* metric.toString(): the label if there is one, else the expression (the
\* metric name for a stat ref).
MetricToString(conf) ==
  IF Truthy(conf.label) THEN conf.label
  ELSE IF conf.hasExpr THEN conf.expression ELSE conf.metricName

RECURSIVE DimTokens(_, _)
DimTokens(dims, i) ==
  IF i > Len(dims) THEN <<>>
  ELSE <<Str(dims[i].name), Str(dims[i].value)>> \o DimTokens(dims, i + 1)

\* The options withStat adds.
StatOptionsAlways(conf, options) ==
  LET o1 == IF Truthy(conf.account)
            THEN OptSet(options, "accountId", Str(conf.account)) ELSE options
      o2 == IF Truthy(conf.region)
            THEN OptSet(o1, "region", Str(conf.region)) ELSE o1
      o3 == IF conf.period # <<>>
            THEN OptSet(o2, "period", Num(conf.period[1])) ELSE o2
  IN IF Truthy(conf.statistic)
     THEN OptSet(o3, "stat", Str(conf.statistic)) ELSE o3

StatOptions(conf, options) ==
  LET o1 == IF Truthy(conf.account)
            THEN OptSet(options, "accountId", Str(conf.account)) ELSE options
      o2 == IF Truthy(conf.region)
            THEN OptSet(o1, "region", Str(conf.region)) ELSE o1
      o3 == IF conf.period # <<>> /\ conf.period[1] # DefaultPeriodSeconds
            THEN OptSet(o2, "period", Num(conf.period[1])) ELSE o2
  IN IF Truthy(conf.statistic) /\ conf.statistic # "Average"
     THEN OptSet(o3, "stat", Str(conf.statistic)) ELSE o3

\* if (!yAxis) visible = false; if (yAxis !== 'left') options.yAxis = yAxis;
\* if (id) options.id = id
AxisOptions(options, yAxis, id) ==
  LET o1 == IF ~Truthy(yAxis) THEN OptSet(options, "visible", Bool(FALSE))
            ELSE options
      o2 == IF yAxis # "left" THEN OptSet(o1, "yAxis", OptStr(yAxis)) ELSE o1
  IN IF Truthy(id) THEN OptSet(o2, "id", Str(id)) ELSE o2

\* A visible math expression without a label gets its toString() as label.
LabelOptionsAlsoInvisible(conf, options) ==
  IF /\ "expression" \in DOMAIN options /\ options["expression"] # Str("")
     /\ ("label" \notin DOMAIN options
           \/ options["label"] \in {JsUndefined, Str("")})
  THEN OptSet(options, "label", Str(MetricToString(conf)))
  ELSE options

LabelOptions(conf, options) ==
  IF /\ ("visible" \notin DOMAIN options \/ options["visible"] # Bool(FALSE))
     /\ "expression" \in DOMAIN options /\ options["expression"] # Str("")
     /\ ("label" \notin DOMAIN options
           \/ options["label"] \in {JsUndefined, Str("")})
  THEN OptSet(options, "label", Str(MetricToString(conf)))
  ELSE options

\* if (Object.keys(renderedOpts).length !== 0) { ret.push(renderedOpts) }
PushOptionsAlways(ret, renderedOpts) == Append(ret, Obj(renderedOpts))

PushOptions(ret, renderedOpts) ==
  IF DOMAIN renderedOpts # {} THEN Append(ret, Obj(renderedOpts)) ELSE ret

\* metricGraphJson(metric, yAxis, id): [thrown, row], the row being the
\* array of tokens with the options object last when it has any property.
metricGraphJson(h, metric, yAxis, id) ==
  LET conf == h[metric]
      rendering == ("label" :> OptStr(conf.label)) @@ ("color" :> OptStr(conf.color))
  IN IF conf.hasStat /\ conf.hasExpr THEN [thrown |-> "BothVariants", row |-> <<>>]
     ELSE IF ~conf.hasStat /\ ~conf.hasExpr THEN [thrown |-> "NoVariant", row |-> <<>>]
     ELSE
       LET ret == IF conf.hasStat
                  THEN <<Str(conf.namespace), Str(conf.metricName)>>
                         \o DimTokens(conf.dimensions, 1)
                  ELSE <<>>
           o1 == IF conf.hasStat THEN StatOptions(conf, rendering)
                 ELSE OptSet(rendering, "expression", Str(conf.expression))
           renderedOpts == DropUndefined(LabelOptions(conf, AxisOptions(o1, yAxis, id)))
       IN [thrown |-> "",
           row |-> PushOptions(ret, renderedOpts)]

\* mset.entries.map(entry => metricGraphJson(entry.metric, entry.tag, entry.id))
RECURSIVE RenderEntries(_, _, _)
RenderEntries(h, entries, i) ==
  IF i > Len(entries) THEN [thrown |-> "", rows |-> <<>>]
  ELSE LET r == metricGraphJson(h, entries[i].metric, entries[i].tag, entries[i].id)
           rest == RenderEntries(h, entries, i + 1)
       IN IF r.thrown # "" THEN [thrown |-> r.thrown, rows |-> <<>>]
          ELSE IF rest.thrown # "" THEN rest
          ELSE [thrown |-> "", rows |-> <<r.row>> \o rest.rows]

\* The lists of at most n Pool objects.
Lists(n) == {<<>>} \cup ArgLists(n)

(***************************************************************************)
(* Properties of MetricSet                                                 *)
(***************************************************************************)

\* The structural key of the metric of entry i / of object o.
EntryKey(i) == FreshKey(heap, metrics[i].metric)

KeyOf(o) == FreshKey(heap, o)

EntriesWithKey(k) == {i \in DOMAIN metrics : EntryKey(i) = k}

IsStatRef(o) == heap[o].hasStat /\ ~heap[o].hasExpr

IsExpression(o) == heap[o].hasExpr /\ ~heap[o].hasStat

AllReturned == \A c \in DOMAIN calls : calls[c].ok

\* The <<id, object>> bindings anywhere in the tree of object o.
RECURSIVE Bindings(_, _)
Bindings(h, o) ==
  LET um == h[o].usingMetrics
  IN UNION {{um[i]} \cup Bindings(h, um[i][2]) : i \in 1..Len(um)}

\* C1: in a fresh MetricSet, addTopLevel(t1, M) then addTopLevel(t2, M')
\* with M, M' stat refs of the same structural key and t1 # t2 leaves
\* exactly one entry for that key, and its tag is t1.
C1_FirstTagWins ==
  (/\ Len(calls) = 2
   /\ IsStatRef(calls[1].metric) /\ IsStatRef(calls[2].metric)
   /\ KeyOf(calls[1].metric) = KeyOf(calls[2].metric)
   /\ calls[1].tag # calls[2].tag)
  => /\ Cardinality(EntriesWithKey(KeyOf(calls[1].metric))) = 1
     /\ \A i \in EntriesWithKey(KeyOf(calls[1].metric)) :
          metrics[i].tag = calls[1].tag
     /\ thrown = ""

C1_Witness ==
  /\ Len(calls) = 2
  /\ calls[1] = [tag |-> "right", metric |-> 1, ok |-> TRUE]
  /\ calls[2] = [tag |-> "left", metric |-> 2, ok |-> TRUE]
  /\ metrics = <<[metric |-> 1, tag |-> "right", id |-> Undefined]>>

\* C2 (as claimed): after any sequence of addTopLevel calls, at most one
\* entry per structural key carries a tag, and that tag is the first one
\* supplied for the key.
C2_OneTaggedEntryPerKey ==
  AllReturned =>
    \A i \in DOMAIN metrics :
      Truthy(metrics[i].tag) =>
        /\ \A j \in DOMAIN metrics :
             (Truthy(metrics[j].tag) /\ EntryKey(j) = EntryKey(i)) => j = i
        /\ \A c \in DOMAIN calls :
             (/\ KeyOf(calls[c].metric) = EntryKey(i)
              /\ \A d \in 1..(c - 1) :
                   KeyOf(calls[d].metric) # EntryKey(i))
             => metrics[i].tag = calls[c].tag

\* The registrations calls[e] of an expression and calls[t] of a metric
\* with the key of object o, which the expression references as m1.
C3_Case(e, t, o) ==
  /\ Len(calls) = 2 /\ {e, t} = {1, 2} /\ AllReturned
  /\ IsExpression(calls[e].metric)
  /\ <<"m1", o>> \in Range(heap[calls[e].metric].usingMetrics)
  /\ KeyOf(calls[t].metric) = KeyOf(o)

\* C3 (as claimed): an expression referencing M under "m1" and a top-level
\* registration of a metric structurally identical to M, in either order,
\* leave exactly one entry with M's key, which has a tag and the id "m1".
C3_OneVisibleEntryM1 ==
  \A e, t \in {1, 2}, o \in DOMAIN heap :
    C3_Case(e, t, o) =>
      /\ Cardinality(EntriesWithKey(KeyOf(o))) = 1
      /\ \A i \in EntriesWithKey(KeyOf(o)) :
           Truthy(metrics[i].tag) /\ metrics[i].id = "m1"

\* C3 (amended): the same, for an expression whose tree binds no other
\* identifier than "m1" to a metric with M's key.
C3_OneVisibleEntryM1_Amended ==
  \A e, t \in {1, 2}, o \in DOMAIN heap :
    (/\ C3_Case(e, t, o)
     /\ \A b \in Bindings(heap, calls[e].metric) :
          KeyOf(b[2]) = KeyOf(o) => b[1] = "m1")
    => /\ Cardinality(EntriesWithKey(KeyOf(o))) = 1
       /\ \A i \in EntriesWithKey(KeyOf(o)) :
            Truthy(metrics[i].tag) /\ metrics[i].id = "m1"

\* The stat ref first, then the expression that uses it as m1: the entry
\* made for the stat ref gets the id.
C3_Witness ==
  /\ C3_Case(2, 1, 1)
  /\ calls[1].metric = 2 /\ calls[2].metric = 4
  /\ metrics[1] = [metric |-> 2, tag |-> calls[1].tag, id |-> "m1"]
  /\ Len(metrics) = 2

\* The objects registered as roots, and every object of their trees.
Roots == {calls[c].metric : c \in DOMAIN calls}

Reachable == Roots \cup {b[2] : b \in UNION {Bindings(heap, o) : o \in Roots}}

\* The identifiers under which a metric with key k is referenced.
IdsOfKey(k) ==
  {b[1] : b \in {x \in UNION {Bindings(heap, o) : o \in Roots} :
                   KeyOf(x[2]) = k}}

Max(a, b) == IF a >= b THEN a ELSE b

\* validateNoIdConflicts(o) returns for every expression registered.
AllValidated ==
  \A c \in DOMAIN calls :
    IsExpression(calls[c].metric)
    => validateNoIdConflicts(heap, memo, calls[c].metric).thrown = ""

\* C17 (as claimed): when every expression passed to addTopLevel has
\* passed validateNoIdConflicts on its own, addOne never throws its
\* identifier/key mismatch error.
C17_MismatchUnreachable ==
  AllValidated => thrown # "CantHappen"

\* C18: every structural key reachable from the registered roots has an
\* entry; it has as many entries as there are distinct identifiers under
\* which a metric of that key is referenced (one if there is none), and two
\* entries of one key carry different identifiers.
C18_OneEntryPerKeyAndId ==
  AllReturned =>
    \A o \in Reachable :
      LET k == KeyOf(o)
      IN /\ EntriesWithKey(k) # {}
         /\ Cardinality(EntriesWithKey(k)) = Max(1, Cardinality(IdsOfKey(k)))
         /\ \A i, j \in EntriesWithKey(k) :
              i # j => /\ Truthy(metrics[i].id) /\ Truthy(metrics[j].id)
                       /\ metrics[i].id # metrics[j].id

\* A stat ref registered as a root and used under two identifiers by an
\* expression registered after it: two entries, with ids a and b.
C18_Witness ==
  /\ Len(calls) = 2 /\ AllReturned
  /\ calls[1].metric = 1 /\ calls[2].metric = 5
  /\ Len(metrics) = 3
  /\ metrics[1].id = "a" /\ metrics[3].id = "b"
  /\ EntriesWithKey(KeyOf(1)) = {1, 3}

(***************************************************************************)
(* Specification of metricKey alone: two stat refs (objects 1, 2) and two  *)
(* expressions over them (objects 3, 4) are drawn; the action calls        *)
(* metricKey on any of them.                                               *)
(***************************************************************************)

KeyNamespaces == {"a", "a|b"}

KeyNames == {"c", "b|c"}

KeyDims == {<<>>, <<Dim("n", "m")>>}

KeyStatistics == {"Average", "Sum"}

KeyPeriods == {<<60>>, <<300>>}

KeyOptional == {Undefined, "x"}

KeyStatConfigs ==
  {StatConfig(ns, name, dims, st, p, r, a, Undefined) :
     ns \in KeyNamespaces, name \in KeyNames, dims \in KeyDims,
     st \in KeyStatistics, p \in KeyPeriods,
     r \in KeyOptional, a \in KeyOptional}

\* The first object: a few stat refs, with or without a label.
KeyStatBases ==
  {StatConfig("a", "c", <<>>, "Average", <<300>>, Undefined, Undefined, Undefined),
   StatConfig("a", "c", <<>>, "Average", <<300>>, "x", Undefined, "lbl"),
   StatConfig("a", "b|c", <<>>, "Sum", <<60>>, Undefined, Undefined, "lbl"),
   StatConfig("n", "m", <<>>, "Average", <<300>>, Undefined, Undefined, Undefined)}

\* The third object: an expression over the two stat refs.
KeyExprConfigs ==
  {ExprConfig("a", um, Undefined) :
     um \in {<<>>, <<<<"c", 1>>>>, <<<<"c", 2>>>>,
             <<<<"c", 1>>, <<"d", 2>>>>, <<<<"d", 2>>, <<"c", 1>>>>}}

\* The fourth object: a labelled expression over them, or over the third.
KeyExprConfigs2 ==
  {ExprConfig("a", um, "lbl") :
     um \in {<<<<"c", 1>>, <<"d", 2>>>>, <<<<"d", 2>>, <<"c", 1>>>>,
             <<<<"e", 3>>, <<"c", 1>>>>}}

KeyHeaps ==
  {<<s1, s2, e3, e4>> :
     s1 \in KeyStatBases, s2 \in KeyStatConfigs,
     e3 \in KeyExprConfigs, e4 \in KeyExprConfigs2}

InitKey ==
  /\ heap \in KeyHeaps
  /\ memo = EmptyMemo(heap)
  /\ metrics = <<>>
  /\ metricById = <<>>
  /\ metricByKey = <<>>
  /\ calls = <<>>
  /\ thrown = ""
  /\ result = <<"none">>
  /\ container = NoContainer

\* metricKey(o)
MetricKey(o) ==
  /\ memo' = MemoAfter(heap, memo, o)
  /\ result' = <<"metricKey", o, metricKey(heap, memo, o)>>
  /\ thrown' = ""
  /\ UNCHANGED <<heap, metrics, metricById, metricByKey, calls, container>>

NextKey == \E o \in DOMAIN heap : MetricKey(o)

SpecKey == InitKey /\ [][NextKey]_vars

(***************************************************************************)
(* Specification of allMetricsGraphJson: one call on lists of Pool         *)
(* objects; the MetricSet variables hold its local set at the return.      *)
(***************************************************************************)

\* allMetricsGraphJson(left, right)
AllMetricsGraphJson(left, right) ==
  /\ result = <<"none">>
  /\ Len(left) + Len(right) <= MaxRegs
  /\ LET s0 == NewMetricSet(memo)
         s1 == AddTopLevelOp(heap, s0, "left", left)
         s == AddTopLevelOp(heap, s1, "right", right)
         r == IF s.thrown # "" THEN [thrown |-> s.thrown, rows |-> <<>>]
              ELSE RenderEntries(heap, s.metrics, 1)
     IN /\ metrics' = s.metrics
        /\ metricById' = s.metricById
        /\ metricByKey' = s.metricByKey
        /\ memo' = s.memo
        /\ thrown' = r.thrown
        /\ calls' = Registrations(heap, s0, "left", left, 1)
                      \o Registrations(heap, s1, "right", right, 1)
        /\ result' = <<"allMetricsGraphJson", left, right, r.rows>>
  /\ UNCHANGED <<heap, container>>

\* One call per behaviour, on any two lists of MaxRegs metrics in all.
NextGraph ==
  /\ result = <<"none">>
  /\ \E left \in Lists(MaxRegs) :
       \E right \in Lists(MaxRegs - Len(left)) : AllMetricsGraphJson(left, right)

SpecGraph == Init /\ [][NextGraph]_vars

(***************************************************************************)
(* Specification of allMetricsGraphJson statement by statement: the two    *)
(* addTopLevel calls on the local set, then the rendering of its entries.  *)
(* result holds the arguments and the statement reached.                   *)
(***************************************************************************)

\* const mset = new MetricSet(); mset.addTopLevel('left', ...left)
GraphAddLeft(left, right) ==
  /\ result = <<"none">>
  /\ Len(left) + Len(right) <= MaxRegs
  /\ LET s0 == NewMetricSet(memo)
         s == AddTopLevelOp(heap, s0, "left", left)
     IN /\ metrics' = s.metrics
        /\ metricById' = s.metricById
        /\ metricByKey' = s.metricByKey
        /\ memo' = s.memo
        /\ thrown' = s.thrown
        /\ calls' = Registrations(heap, s0, "left", left, 1)
  /\ result' = <<"addedLeft", left, right>>
  /\ UNCHANGED <<heap, container>>

\* mset.addTopLevel('right', ...right)
GraphAddRight ==
  /\ result[1] = "addedLeft" /\ thrown = ""
  /\ LET s == AddTopLevelOp(heap, ThisSet, "right", result[3])
     IN /\ metrics' = s.metrics
        /\ metricById' = s.metricById
        /\ metricByKey' = s.metricByKey
        /\ memo' = s.memo
        /\ thrown' = s.thrown
  /\ calls' = calls \o Registrations(heap, ThisSet, "right", result[3], 1)
  /\ result' = <<"addedRight", result[2], result[3]>>
  /\ UNCHANGED <<heap, container>>

\* return mset.entries.map(entry => metricGraphJson(...))
GraphRender ==
  /\ result[1] = "addedRight" /\ thrown = ""
  /\ LET r == RenderEntries(heap, metrics, 1)
     IN /\ thrown' = r.thrown
        /\ result' = <<"allMetricsGraphJson", result[2], result[3], r.rows>>
  /\ UNCHANGED <<heap, memo, metrics, metricById, metricByKey, calls, container>>

NextGraphSteps ==
  \/ /\ result = <<"none">>
     /\ \E left \in Lists(MaxArgs) :
          \E right \in Lists(MaxArgs) : GraphAddLeft(left, right)
  \/ GraphAddRight
  \/ GraphRender

SpecGraphSteps == Init /\ [][NextGraphSteps]_vars

(***************************************************************************)
(* Specification of rendering: metricGraphJson on one object, or           *)
(* allMetricsGraphJson on lists of them, the objects being two stat refs   *)
(* (the first of any shape) and an expression over the first.              *)
(***************************************************************************)

RenderLabels == {Undefined, "lbl"}

RenderStatConfigs ==
  {StatConfig("a", "c", d, s, p, r, a, l) :
     d \in KeyDims, s \in KeyStatistics, p \in KeyPeriods,
     r \in KeyOptional, a \in KeyOptional, l \in RenderLabels}

RenderHeaps ==
  {<<s, StatConfig("n", "m", <<Dim("d", "e")>>, "Average", <<300>>,
                   Undefined, Undefined, Undefined),
     ExprConfig("m1*2", <<<<"m1", 1>>>>, l)>> :
     s \in RenderStatConfigs, l \in RenderLabels}

InitRender ==
  /\ heap \in RenderHeaps
  /\ memo = EmptyMemo(heap)
  /\ metrics = <<>>
  /\ metricById = <<>>
  /\ metricByKey = <<>>
  /\ calls = <<>>
  /\ thrown = ""
  /\ result = <<"none">>
  /\ container = NoContainer

\* metricGraphJson(o, yAxis, id)
MetricGraphJson(o, yAxis, id) ==
  /\ result = <<"none">>
  /\ LET r == metricGraphJson(heap, o, yAxis, id)
     IN /\ thrown' = r.thrown
        /\ result' = <<"metricGraphJson", o, yAxis, id, r.row>>
  /\ UNCHANGED <<heap, memo, metrics, metricById, metricByKey, calls, container>>

\* The lists of at most n objects of the heap.
HeapLists(n) == {<<>>} \cup UNION {[1..k -> DOMAIN heap] : k \in 1..n}

NextRender ==
  /\ result = <<"none">>
  /\ \/ \E o \in DOMAIN heap, yAxis \in {Undefined} \cup Tags,
          id \in {Undefined, "m1"} : MetricGraphJson(o, yAxis, id)
     \/ \E left \in HeapLists(MaxArgs) :
          \E right \in HeapLists(MaxArgs) : AllMetricsGraphJson(left, right)

SpecRender == InitRender /\ [][NextRender]_vars

(***************************************************************************)
(* Specification of allMetricsGraphJson on objects some of whose           *)
(* toMetricConfig() has both a metricStat and a mathExpression, or none.   *)
(***************************************************************************)

\* 1: a stat ref.  2: an object with the expression 'a' and a metricStat.
\* 3: an object with neither.  4, 5: expressions over 2 and 3.  6: an
\* expression over 1.  7: another stat ref.
MalformedPool ==
  << StatConfig("a", "c", <<Dim("n", "m")>>, "Average", <<300>>,
                Undefined, Undefined, Undefined),
     [StatConfig("c|n", "m", <<>>, "Average", <<300>>,
                 Undefined, Undefined, Undefined)
        EXCEPT !.hasExpr = TRUE, !.expression = "a"],
     [ExprConfig("", <<>>, Undefined) EXCEPT !.hasExpr = FALSE],
     ExprConfig("m1*2", <<<<"m1", 2>>>>, Undefined),
     ExprConfig("m1+1", <<<<"m1", 3>>>>, Undefined),
     ExprConfig("x+1", <<<<"x", 1>>>>, Undefined),
     StatConfig("n", "m", <<>>, "Sum", <<60>>, Undefined, Undefined, Undefined) >>

InitMalformed ==
  /\ heap = MalformedPool
  /\ memo = EmptyMemo(heap)
  /\ metrics = <<>>
  /\ metricById = <<>>
  /\ metricByKey = <<>>
  /\ calls = <<>>
  /\ thrown = ""
  /\ result = <<"none">>
  /\ container = NoContainer

NextMalformed ==
  /\ result = <<"none">>
  /\ \E left \in HeapLists(MaxRegs) :
       \E right \in HeapLists(MaxRegs - Len(left)) :
         AllMetricsGraphJson(left, right)

SpecMalformed == InitMalformed /\ [][NextMalformed]_vars

(***************************************************************************)
(* Specification of validateNoIdConflicts: three stat refs (1 and 2 with   *)
(* the same key) and three expressions over them, 6 over 4 and 5, are      *)
(* drawn; the action validates one of the expressions.                     *)
(***************************************************************************)

ValidateStats ==
  << StatConfig("n", "m", <<>>, "Average", <<300>>, Undefined, Undefined, Undefined),
     StatConfig("n", "m", <<>>, "Average", <<300>>, Undefined, Undefined, "lbl"),
     StatConfig("n", "m", <<>>, "Sum", <<300>>, Undefined, Undefined, Undefined) >>

\* The usingMetrics of at most two properties with identifiers ids and
\* objects refs.
ValidateUsings(ids, refs) ==
  {<<>>} \cup {<<<<i, o>>>> : i \in ids, o \in refs}
         \cup {um \in {<<<<i, o>>, <<j, p>>>> :
                         i \in ids, j \in ids, o \in refs, p \in refs} :
                 DistinctIds(um)}

ValidateHeaps ==
  {ValidateStats \o <<ExprConfig("x+y", u4, Undefined),
                      ExprConfig("x*y", u5, Undefined),
                      ExprConfig("e", u6, Undefined)>> :
     u4 \in ValidateUsings({"x", "y"}, {1, 3}),
     u5 \in ValidateUsings({"x", "y"}, {2, 3, 4}),
     u6 \in ValidateUsings({"x", "e"}, {1, 4, 5}) \ {<<>>}}

InitValidate ==
  /\ heap \in ValidateHeaps
  /\ memo = EmptyMemo(heap)
  /\ metrics = <<>>
  /\ metricById = <<>>
  /\ metricByKey = <<>>
  /\ calls = <<>>
  /\ thrown = ""
  /\ result = <<"none">>
  /\ container = NoContainer

\* validateNoIdConflicts(expression)
ValidateNoIdConflicts(expression) ==
  /\ IsExpression(expression)
  /\ LET v == validateNoIdConflicts(heap, memo, expression)
     IN /\ memo' = v.memo
        /\ thrown' = v.thrown
        /\ result' = <<"validateNoIdConflicts", expression, v.detail>>
  /\ UNCHANGED <<heap, metrics, metricById, metricByKey, calls, container>>

NextValidate == \E e \in DOMAIN heap : ValidateNoIdConflicts(e)

SpecValidate == InitValidate /\ [][NextValidate]_vars

(***************************************************************************)
(* Properties of validateNoIdConflicts                                     *)
(***************************************************************************)

\* Some identifier is bound, at two places of the tree of object o, to
\* metrics with different structural keys.
HasIdConflict(o) ==
  \E b1 \in Bindings(heap, o), b2 \in Bindings(heap, o) :
    b1[1] = b2[1] /\ KeyOf(b1[2]) # KeyOf(b2[2])

\* C4: validateNoIdConflicts(expression) raises the conflict error exactly
\* when some identifier is bound, anywhere in the tree, to two metrics with
\* different structural keys; the error names such an identifier and two
\* such metrics.  Otherwise it returns.
C4_ThrowsIffConflict ==
  result[1] = "validateNoIdConflicts" =>
    /\ thrown \in {"", "IdConflict"}
    /\ thrown = "IdConflict" <=> HasIdConflict(result[2])
    /\ thrown = "IdConflict" =>
         /\ <<result[3][1], result[3][2]>> \in Bindings(heap, result[2])
         /\ <<result[3][1], result[3][3]>> \in Bindings(heap, result[2])
         /\ KeyOf(result[3][2]) # KeyOf(result[3][3])

\* The conflict is between a property of the root (object 6) and a property
\* of an expression below it.
C4_Witness ==
  /\ result[1] = "validateNoIdConflicts" /\ result[2] = 6
  /\ thrown = "IdConflict"
  /\ result[3][1] = "x"
  /\ <<"x", result[3][3]>> \in Range(heap[6].usingMetrics)
  /\ <<"x", result[3][2]>> \in Range(heap[4].usingMetrics)
  /\ <<"x", result[3][2]>> \notin Range(heap[6].usingMetrics)

(***************************************************************************)
(* Properties of allMetricsGraphJson                                       *)
(***************************************************************************)

Returned == result[1] = "allMetricsGraphJson" /\ thrown = ""

\* The options object of a row (the empty object if the row has none).
RowOptions(row) ==
  IF row # <<>> /\ row[Len(row)][1] = "object" THEN row[Len(row)][2] ELSE <<>>

RowHas(row, k) == k \in DOMAIN RowOptions(row)

RowId(row) == IF RowHas(row, "id") THEN RowOptions(row)["id"][2] ELSE Undefined

\* The bindings anywhere in the trees of the metrics of the two lists.
ForestBindings(left, right) ==
  UNION {Bindings(heap, o) : o \in Range(left) \cup Range(right)}

TopKeys(list) == {KeyOf(list[i]) : i \in DOMAIN list}

\* C5: allMetricsGraphJson either raises an error or returns rows of which
\* no two carry the same id, and a row carrying id X renders a metric with
\* the structural key of every metric referenced under X in the forest.
C5_IdsGloballyUnique ==
  Returned =>
    LET rows == result[4]
    IN /\ Len(rows) = Len(metrics)
       /\ \A i, j \in DOMAIN rows :
            (RowId(rows[i]) # Undefined /\ RowId(rows[i]) = RowId(rows[j]))
            => i = j
       /\ \A i \in DOMAIN rows :
            /\ rows[i] = metricGraphJson(heap, metrics[i].metric,
                                         metrics[i].tag, metrics[i].id).row
            /\ \A b \in ForestBindings(result[2], result[3]) :
                 b[1] = RowId(rows[i]) => KeyOf(b[2]) = EntryKey(i)

\* Two top-level expressions on different axes use m1 for the same metric.
C5_Witness ==
  /\ Returned
  /\ result[2] = <<4>> /\ result[3] = <<9>>
  /\ Len(result[4]) = 4
  /\ RowId(result[4][2]) = "m1" /\ RowId(result[4][4]) = "x"

\* C9 (as claimed): an entry that a top-level registration makes visible
\* holds the metric object of a top-level registration (the new object
\* replaces the one found as an operand), and its row is rendered with that
\* object's rendering properties.
C9_TopLevelObjectReplacesOperand ==
  Returned =>
    \A i \in DOMAIN metrics :
      Truthy(metrics[i].tag) =>
        \E c \in DOMAIN calls :
          /\ calls[c].metric = metrics[i].metric
          /\ result[4][i] = metricGraphJson(heap, calls[c].metric,
                                            metrics[i].tag, metrics[i].id).row

\* C10: in the rows returned, a metric that is only an expression operand
\* has visible = false and no yAxis; a top-level metric of the right axis
\* has yAxis = "right" and no visible key; a top-level metric of the left
\* axis has neither key.
C10_Visibility ==
  Returned =>
    LET rows == result[4]
        left == result[2]
        right == result[3]
    IN /\ Len(rows) = Len(metrics)
       /\ \A i \in DOMAIN rows :
            LET opts == RowOptions(rows[i])
            IN /\ EntryKey(i) \notin TopKeys(left) \cup TopKeys(right)
                  => /\ "visible" \in DOMAIN opts
                     /\ opts["visible"] = Bool(FALSE)
                     /\ "yAxis" \notin DOMAIN opts
               /\ metrics[i].tag = "right"
                  => /\ "yAxis" \in DOMAIN opts
                     /\ opts["yAxis"] = Str("right")
                     /\ "visible" \notin DOMAIN opts
               /\ metrics[i].tag = "left"
                  => "yAxis" \notin DOMAIN opts /\ "visible" \notin DOMAIN opts
       /\ \A l \in DOMAIN left :
            \E i \in DOMAIN rows :
              EntryKey(i) = KeyOf(left[l]) /\ metrics[i].tag = "left"
       /\ \A r \in DOMAIN right :
            KeyOf(right[r]) \notin TopKeys(left)
            => /\ \E i \in DOMAIN rows :
                    EntryKey(i) = KeyOf(right[r]) /\ metrics[i].tag = "right"
               /\ \A i \in DOMAIN rows :
                    EntryKey(i) = KeyOf(right[r]) => metrics[i].tag # "left"

\* An expression on the left, its operand, and a stat ref on the right.
C10_Witness ==
  /\ Returned
  /\ result[2] = <<4>> /\ result[3] = <<3>>
  /\ Len(result[4]) = 3
  /\ ~RowHas(result[4][1], "visible") /\ ~RowHas(result[4][1], "yAxis")
  /\ RowOptions(result[4][2])["visible"] = Bool(FALSE)
  /\ ~RowHas(result[4][2], "yAxis")
  /\ RowOptions(result[4][3])["yAxis"] = Str("right")
  /\ ~RowHas(result[4][3], "visible")

(***************************************************************************)
(* Properties of rendering                                                 *)
(***************************************************************************)

\* metricGraphJson(result[2], result[3], result[4]) has returned result[5].
Rendered == result[1] = "metricGraphJson" /\ thrown = ""

\* The tokens that name a stat ref: namespace, metric name, dimensions.
NameTokens(conf) ==
  <<Str(conf.namespace), Str(conf.metricName)>> \o DimTokens(conf.dimensions, 1)

\* A stat ref without account, region and rendering properties.
PlainStat(o) ==
  /\ IsStatRef(o)
  /\ ~Truthy(heap[o].account) /\ ~Truthy(heap[o].region)
  /\ heap[o].label = Undefined /\ heap[o].color = Undefined

\* A plain stat ref with the default statistic and period and one dimension.
DefaultStat(o) ==
  /\ PlainStat(o)
  /\ heap[o].statistic = "Average" /\ heap[o].period = <<300>>
  /\ Len(heap[o].dimensions) = 1

\* C11: a plain stat ref rendered on the left axis without id has the option
\* period exactly when its period is not 300 seconds and the option stat
\* exactly when its statistic is not "Average", and no other option; when
\* neither deviates the row is the name tokens alone, else the name tokens
\* followed by the options object.
C11_StatOptionsOnlyWhenNonDefault ==
  (Rendered /\ PlainStat(result[2]) /\ result[3] = "left" /\ result[4] = Undefined)
  => LET conf == heap[result[2]]
         row == result[5]
         opts == RowOptions(row)
     IN /\ RowHas(row, "period") <=> conf.period # <<300>>
        /\ RowHas(row, "period") => opts["period"] = Num(conf.period[1])
        /\ RowHas(row, "stat") <=> conf.statistic # "Average"
        /\ RowHas(row, "stat") => opts["stat"] = Str(conf.statistic)
        /\ DOMAIN opts \subseteq {"period", "stat"}
        /\ row = IF conf.period = <<300>> /\ conf.statistic = "Average"
                 THEN NameTokens(conf)
                 ELSE Append(NameTokens(conf), Obj(opts))

\* A stat ref of 60 seconds and Sum shows both options.
C11_Witness ==
  /\ Rendered /\ PlainStat(result[2])
  /\ result[3] = "left" /\ result[4] = Undefined
  /\ result[5] = <<Str("a"), Str("c"), Str("n"), Str("m"),
                   Obj(("period" :> Num(60)) @@ ("stat" :> Str("Sum")))>>

\* allMetricsGraphJson([statA], [statB]) has returned, statA and statB being
\* default stat refs of different keys.
C12_Case ==
  /\ Returned
  /\ Len(result[2]) = 1 /\ Len(result[3]) = 1
  /\ DefaultStat(result[2][1]) /\ DefaultStat(result[3][1])
  /\ KeyOf(result[2][1]) # KeyOf(result[3][1])

\* C12 (as claimed): the call returns two rows; the left row is the four
\* name tokens followed by an empty options object, the right row the four
\* name tokens followed by {yAxis: "right"}.
C12_LeftRowHasEmptyOptions ==
  C12_Case =>
    /\ Len(result[4]) = 2
    /\ result[4][1] = Append(NameTokens(heap[result[2][1]]), Obj(<<>>))
    /\ result[4][2] = Append(NameTokens(heap[result[3][1]]),
                             Obj("yAxis" :> Str("right")))

\* C12 (amended): the call returns two rows; the left row is the four name
\* tokens and nothing else, the right row the four name tokens followed by
\* {yAxis: "right"}.
C12_LeftRowHasNoOptions ==
  C12_Case =>
    /\ Len(result[4]) = 2
    /\ result[4][1] = NameTokens(heap[result[2][1]])
    /\ Len(result[4][1]) = 4
    /\ result[4][2] = Append(NameTokens(heap[result[3][1]]),
                             Obj("yAxis" :> Str("right")))

C12_Witness ==
  /\ C12_Case
  /\ result[4] = << <<Str("a"), Str("c"), Str("n"), Str("m")>>,
                    <<Str("n"), Str("m"), Str("d"), Str("e"),
                      Obj("yAxis" :> Str("right"))>> >>

\* C13: an expression without a label rendered with a tag has the label
\* option equal to its string form (the expression); rendered without a tag
\* it has no label option; an expression with a label keeps that label
\* either way.
C13_AutoLabel ==
  (Rendered /\ IsExpression(result[2]))
  => LET conf == heap[result[2]]
         row == result[5]
         opts == RowOptions(row)
     IN /\ (~Truthy(conf.label) /\ Truthy(result[3]))
           => /\ RowHas(row, "label")
              /\ opts["label"] = Str(MetricToString(conf))
              /\ opts["label"] = Str(conf.expression)
        /\ (~Truthy(conf.label) /\ ~Truthy(result[3]))
           => ~RowHas(row, "label")
        /\ Truthy(conf.label)
           => RowHas(row, "label") /\ opts["label"] = Str(conf.label)

\* The expression m1*2 without a label, rendered on the right axis.
C13_Witness ==
  /\ Rendered /\ IsExpression(result[2])
  /\ heap[result[2]].label = Undefined
  /\ result[3] = "right"
  /\ RowOptions(result[5])["label"] = Str("m1*2")

(***************************************************************************)
(* Properties of the order of the entries                                  *)
(***************************************************************************)

\* The addOne calls that addOne(o, _, id) makes, itself first: the
\* depth-first pre-order of the tree of o.
RECURSIVE PreOrder(_, _, _)
RECURSIVE PreOrderSubs(_, _, _)
PreOrder(h, o, id) ==
  <<[metric |-> o, id |-> id]>> \o PreOrderSubs(h, h[o].usingMetrics, 1)

PreOrderSubs(h, um, i) ==
  IF i > Len(um) THEN <<>>
  ELSE PreOrder(h, um[i][2], um[i][1]) \o PreOrderSubs(h, um, i + 1)

\* The addOne calls of the registrations made so far, in order.
RECURSIVE VisitsFrom(_)
VisitsFrom(c) ==
  IF c > Len(calls) THEN <<>>
  ELSE PreOrder(heap, calls[c].metric, Undefined) \o VisitsFrom(c + 1)

Visits == VisitsFrom(1)

\* The structural keys of the metrics of the calls V.
VisitKeys(V) == [v \in DOMAIN V |-> KeyOf(V[v].metric)]

\* The identifier of the first of the calls V (of keys K) that brings one
\* for key k.
FirstIdOfKey(V, K, k) ==
  LET S == {v \in DOMAIN V : K[v] = k /\ Truthy(V[v].id)}
  IN IF S = {} THEN Undefined
     ELSE V[CHOOSE v \in S : \A u \in S : v <= u].id

\* Call v is the first encounter of its key, or of a further identifier
\* for its key.
FirstEncounter(V, K, v) ==
  \/ \A u \in 1..(v - 1) : K[u] # K[v]
  \/ /\ Truthy(V[v].id)
     /\ V[v].id # FirstIdOfKey(V, K, K[v])
     /\ \A u \in 1..(v - 1) : ~(K[u] = K[v] /\ V[u].id = V[v].id)

FirstEncounters(V, K) == {v \in DOMAIN V : FirstEncounter(V, K, v)}

\* The i-th element of the set F of positions.
NthFirstEncounter(F, i) ==
  CHOOSE v \in F : Cardinality({u \in F : u <= v}) = i

\* The entries are the metrics of the first encounters, in their order.
EntriesInFirstEncounterOrder ==
  AllReturned =>
    LET V == Visits
        F == FirstEncounters(V, VisitKeys(V))
    IN /\ Len(metrics) = Cardinality(F)
       /\ \A i \in DOMAIN metrics :
            metrics[i].metric = V[NthFirstEncounter(F, i)].metric

\* The previous entries are a prefix of the new ones, their metric
\* unchanged and their tag and identifier unchanged once set.
EntriesOnlyAppended ==
  /\ Len(metrics') >= Len(metrics)
  /\ \A i \in DOMAIN metrics :
       /\ metrics'[i].metric = metrics[i].metric
       /\ Truthy(metrics[i].tag) => metrics'[i].tag = metrics[i].tag
       /\ Truthy(metrics[i].id) => metrics'[i].id = metrics[i].id

\* One row per entry, in the order of the entries, the left list
\* registered before the right one.
RowsInEntryOrder ==
  Returned =>
    /\ Len(result[4]) = Len(metrics)
    /\ \A i \in DOMAIN metrics :
         result[4][i] = metricGraphJson(heap, metrics[i].metric,
                                        metrics[i].tag, metrics[i].id).row
    /\ [c \in DOMAIN calls |-> calls[c].metric] = result[2] \o result[3]
    /\ \A c \in DOMAIN calls :
         calls[c].tag = IF c <= Len(result[2]) THEN "left" ELSE "right"

\* C19: every step of allMetricsGraphJson leaves the previous entries as a
\* prefix of the new ones (metric, set tag and set identifier unchanged);
\* the entries are in the order of their first encounter in the
\* depth-first pre-order of the registered trees; the rows returned are
\* one per entry in that order, the left list registered before the right.
C19_EntriesAppendedInEncounterOrder ==
  /\ [][EntriesOnlyAppended]_vars
  /\ [](EntriesInFirstEncounterOrder /\ RowsInEntryOrder)

\* A stat ref on the left, then an expression using it as a and a
\* structurally equal one as b: three entries, the last for b.
C19_Witness ==
  /\ Returned
  /\ result[2] = <<1>> /\ result[3] = <<5>>
  /\ Len(result[4]) = 3
  /\ [i \in 1..3 |-> metrics[i].metric] = <<1, 5, 2>>
  /\ metrics[1].id = "a" /\ metrics[3].id = "b"

\* toMetricConfig() of o has both variants, or neither.
Malformed(o) == heap[o].hasStat = heap[o].hasExpr

\* The objects of the two lists and of their trees.
Forest(left, right) ==
  Range(left) \cup Range(right) \cup {b[2] : b \in ForestBindings(left, right)}

\* C14 (as claimed): a call of allMetricsGraphJson whose lists hold or
\* reference an object with both variants or with none raises an error and
\* returns no rows.
C14_MalformedAlwaysRaises ==
  (/\ result[1] = "allMetricsGraphJson"
   /\ \E o \in Forest(result[2], result[3]) : Malformed(o))
  => thrown # "" /\ result[4] = <<>>

(***************************************************************************)
(* Properties of metricKey                                                 *)
(***************************************************************************)

\* The semantic fields of two stat refs agree.
SameStatFields(c1, c2) ==
  /\ c1.namespace = c2.namespace /\ c1.metricName = c2.metricName
  /\ c1.dimensions = c2.dimensions
  /\ c1.statistic = c2.statistic /\ c1.period = c2.period
  /\ c1.account = c2.account /\ c1.region = c2.region

\* Two objects are structurally equal: the same variant, the same semantic
\* fields and, for expressions, structurally equal metrics under the same
\* identifiers.  Rendering properties and listing order take no part.
RECURSIVE StructEq(_, _, _)
StructEq(h, o1, o2) ==
  LET c1 == h[o1]
      c2 == h[o2]
  IN /\ c1.hasStat = c2.hasStat /\ c1.hasExpr = c2.hasExpr
     /\ c1.hasStat => SameStatFields(c1, c2)
     /\ c1.hasExpr =>
          /\ c1.expression = c2.expression
          /\ UsingIds(c1.usingMetrics) = UsingIds(c2.usingMetrics)
          /\ \A id \in UsingIds(c1.usingMetrics) :
               StructEq(h, c1.usingMetrics[UsingGet(c1.usingMetrics, id)][2],
                        c2.usingMetrics[UsingGet(c2.usingMetrics, id)][2])

\* C6 (as claimed): the key metricKey returns for a stat ref differs from
\* the key of every stat ref that differs from it in a semantic field.
C6_KeyInjectiveOnStatRefs ==
  result[1] = "metricKey" =>
    \A o2 \in DOMAIN heap :
      (/\ IsStatRef(result[2]) /\ IsStatRef(o2)
       /\ ~SameStatFields(heap[result[2]], heap[o2]))
      => result[3] # metricKey(heap, memo, o2)

\* C7 (as claimed): the key metricKey returns for a stat ref is the key of
\* no math expression.
C7_KeyEncodesVariant ==
  result[1] = "metricKey" =>
    \A o2 \in DOMAIN heap :
      (IsStatRef(result[2]) /\ IsExpression(o2))
      => result[3] # metricKey(heap, memo, o2)

\* C8: structurally equal metrics get equal keys, whatever their rendering
\* properties, whether or not a key is cached on either object, and
\* whatever the listing order of usingMetrics.
C8_EqualMetricsEqualKeys ==
  \A o1, o2 \in DOMAIN heap :
    StructEq(heap, o1, o2) =>
      /\ metricKey(heap, memo, o1) = metricKey(heap, memo, o2)
      /\ metricKey(heap, memo, o1) = FreshKey(heap, o2)

\* Two expressions that list the same sub-metrics in different orders and
\* differ in their label; the key is cached on one of them only.
C8_Witness ==
  /\ StructEq(heap, 3, 4) /\ StructEq(heap, 1, 2)
  /\ heap[3].usingMetrics # heap[4].usingMetrics
  /\ heap[3].label # heap[4].label /\ heap[1].label # heap[2].label
  /\ memo[3] = <<>> /\ memo[4] # <<>>
  /\ result = <<"metricKey", 4, FreshKey(heap, 3)>>

(***************************************************************************)
(* ContainerDefinition                                                     *)
(***************************************************************************)

\* An optional array of the properties is <<>> (undefined) or <<array>>.
\* x || []
OrEmptyArray(x) == IF x = <<>> THEN <<>> ELSE x[1]

\* optional?.push(...items): nothing where optional is undefined.
PushIfDefined(optional, items) ==
  IF optional = <<>> THEN <<>> ELSE <<optional[1] \o items>>

Secret(name) == [secretName |-> name, secretArn |-> "arn:" \o name]

renderSecret(secret) ==
  [name |-> secret.secretName, valueFrom |-> secret.secretArn]

renderUlimit(ulimit) ==
  [name |-> ulimit.name, softLimit |-> ulimit.softLimit,
   hardLimit |-> ulimit.hardLimit]

\* secrets.map(renderSecret), ulimits.map(renderUlimit)
RenderSecrets(secrets) == [i \in DOMAIN secrets |-> renderSecret(secrets[i])]

RenderUlimits(ulimits) == [i \in DOMAIN ulimits |-> renderUlimit(ulimits[i])]

\* The mount point and the volume addScratch makes of a ScratchSpace.
ScratchMountPoint(scratch) ==
  [containerPath |-> scratch.containerPath, readOnly |-> scratch.readOnly,
   sourceVolume |-> scratch.name]

ScratchVolume(scratch) ==
  [host |-> [sourcePath |-> scratch.sourcePath], name |-> scratch.name]

\* The most secrets in the properties.
MaxSecrets == 2

\* The length of this.secrets at which the model stops following the
\* constructor's loop.
MaxSecretsLength == 4

\* The most addScratch and addUlimits calls on one ContainerDefinition.
MaxAdds == 2

SecretPool == {Secret("s1"), Secret("s2")}

ScratchPool ==
  {[containerPath |-> "/scratch", readOnly |-> FALSE,
    sourcePath |-> "/host/scratch", name |-> "scratch"],
   [containerPath |-> "/data", readOnly |-> TRUE,
    sourcePath |-> "/host/data", name |-> "data"]}

UlimitPool ==
  {[name |-> "nofile", softLimit |-> 1, hardLimit |-> 2],
   [name |-> "core", softLimit |-> 0, hardLimit |-> 0]}

SeqsUpTo(S, n) == UNION {[1..k -> S] : k \in 0..n}

\* The ContainerProperties a ContainerDefinition is constructed with.
ContainerPropertiesSet ==
  [mountPoints : {<<>>, << <<[containerPath |-> "/mnt", readOnly |-> FALSE,
                              sourceVolume |-> "vol"]>> >>},
   volumes : {<<>>, << <<>> >>, << <<[name |-> "vol", hostPath |-> "/host/vol"]>> >>},
   ulimits : {<<>>, << <<[name |-> "cpu", softLimit |-> 1, hardLimit |-> 1]>> >>},
   secrets : {<<>>} \cup {<<l>> : l \in SeqsUpTo(SecretPool, MaxSecrets)},
   jobRole : BOOLEAN]

\* The constructor is about to run on the properties: the fields have
\* their initializers.  supplied, visited, granted and log are history:
\* the secrets of the properties at the call, the secrets the loop has
\* taken, the grantRead calls made, the add calls made.
InitContainer ==
  /\ heap = <<>>
  /\ memo = <<>>
  /\ metrics = <<>>
  /\ metricById = <<>>
  /\ metricByKey = <<>>
  /\ calls = <<>>
  /\ thrown = ""
  /\ result = <<"none">>
  /\ \E props \in ContainerPropertiesSet :
       container = [pc |-> "new", props |-> props,
                    mountPoints |-> <<>>, ulimits |-> <<>>, secrets |-> <<>>,
                    next |-> 1, rendered |-> <<>>,
                    supplied |-> OrEmptyArray(props.secrets),
                    visited |-> <<>>, granted |-> <<>>, log |-> <<>>]

\* The constructor up to its loop: this.mountPoints and this.secrets are
\* the arrays of the properties where those are given.
Construct ==
  /\ container.pc = "new"
  /\ container' = [container EXCEPT
                     !.pc = "loop",
                     !.mountPoints = OrEmptyArray(container.props.mountPoints),
                     !.secrets = OrEmptyArray(container.props.secrets),
                     !.next = 1]
  /\ UNCHANGED <<heap, memo, metrics, metricById, metricByKey, calls, thrown,
                 result>>

\* One turn of for (const secret of this.secrets): the iterator yields the
\* element at its index while that is below the array's current length.
SecretsLoopStep ==
  /\ container.pc = "loop"
  /\ container.next <= Len(container.secrets)
  /\ Len(container.secrets) < MaxSecretsLength
  /\ LET secret == container.secrets[container.next]
         pushed == Append(container.secrets, secret)
     IN container' = [container EXCEPT
                        !.granted = IF container.props.jobRole
                                    THEN Append(@, secret) ELSE @,
                        !.visited = Append(@, secret),
                        !.secrets = pushed,
                        !.props.secrets = IF @ = <<>> THEN @ ELSE <<pushed>>,
                        !.next = @ + 1]
  /\ UNCHANGED <<heap, memo, metrics, metricById, metricByKey, calls, thrown,
                 result>>

\* The iterator is done: the constructor returns.
SecretsLoopEnd ==
  /\ container.pc = "loop"
  /\ container.next > Len(container.secrets)
  /\ container' = [container EXCEPT !.pc = "ready"]
  /\ UNCHANGED <<heap, memo, metrics, metricById, metricByKey, calls, thrown,
                 result>>

\* addMountPoints(...mountPoints) on the container record c
AddMountPointsOp(c, mountPoints) ==
  [c EXCEPT !.mountPoints = @ \o mountPoints,
            !.props.mountPoints = IF @ = <<>> THEN @ ELSE <<c.mountPoints \o mountPoints>>]

\* addScratch(scratch)
AddScratch(scratch) ==
  /\ container.pc = "ready"
  /\ Len(container.log) < MaxAdds
  /\ LET c1 == [container EXCEPT
                  !.props.volumes = PushIfDefined(@, <<ScratchVolume(scratch)>>)]
         c2 == AddMountPointsOp(c1, <<ScratchMountPoint(scratch)>>)
     IN container' = [c2 EXCEPT
                        !.log = Append(@, [op |-> "addScratch", arg |-> <<scratch>>])]
  /\ UNCHANGED <<heap, memo, metrics, metricById, metricByKey, calls, thrown,
                 result>>

\* addUlimits(...ulimits)
AddUlimits(ulimits) ==
  /\ container.pc = "ready"
  /\ Len(container.log) < MaxAdds
  /\ container' = [container EXCEPT
                     !.ulimits = @ \o ulimits,
                     !.log = Append(@, [op |-> "addUlimits", arg |-> ulimits])]
  /\ UNCHANGED <<heap, memo, metrics, metricById, metricByKey, calls, thrown,
                 result>>

\* renderContainerDefinition(): the properties the add methods bear on, the
\* lazy ones as what their producer returns.
RenderContainerDefinition ==
  /\ container.pc = "ready"
  /\ container' =
       [container EXCEPT
          !.pc = "rendered",
          !.rendered =
            <<[mountPoints |-> container.mountPoints,
               secrets |-> RenderSecrets(container.secrets),
               ulimits |-> IF container.props.ulimits = <<>> THEN <<>>
                           ELSE <<RenderUlimits(container.props.ulimits[1])>>,
               volumes |-> container.props.volumes]>>]
  /\ UNCHANGED <<heap, memo, metrics, metricById, metricByKey, calls, thrown,
                 result>>

NextContainer ==
  \/ Construct
  \/ SecretsLoopStep
  \/ SecretsLoopEnd
  \/ \E scratch \in ScratchPool : AddScratch(scratch)
  \/ \E ulimits \in SeqsUpTo(UlimitPool, 1) \ {<<>>} : AddUlimits(ulimits)
  \/ RenderContainerDefinition

SpecContainer == InitContainer /\ [][NextContainer]_vars

(***************************************************************************)
(* Properties of ContainerDefinition                                       *)
(***************************************************************************)

\* renderContainerDefinition() has returned.
ContainerRendered == container.pc = "rendered"

\* C15 (as claimed): the definition rendered after addScratch(scratch) has
\* a mount point whose sourceVolume is scratch.name and a volume whose name
\* is scratch.name, whether the properties had a volumes array or not.
C15_ScratchAddsMountPointAndVolume ==
  ContainerRendered =>
    \A i \in DOMAIN container.log :
      container.log[i].op = "addScratch" =>
        LET scratch == container.log[i].arg[1]
            def == container.rendered[1]
        IN /\ \E m \in DOMAIN def.mountPoints :
                def.mountPoints[m].sourceVolume = scratch.name
           /\ def.volumes # <<>>
           /\ \E v \in DOMAIN def.volumes[1] :
                def.volumes[1][v].name = scratch.name

\* C16 (as claimed): the ulimits of the definition rendered hold every
\* ulimit of the properties and every ulimit added by addUlimits before.
C16_AddedUlimitsRendered ==
  ContainerRendered =>
    LET def == container.rendered[1]
        rendered == IF def.ulimits = <<>> THEN {} ELSE Range(def.ulimits[1])
    IN /\ \A u \in Range(OrEmptyArray(container.props.ulimits)) :
            renderUlimit(u) \in rendered
       /\ \A i \in DOMAIN container.log :
            container.log[i].op = "addUlimits" =>
              \A u \in Range(container.log[i].arg) : renderUlimit(u) \in rendered

\* C20 (as claimed): the constructor's loop takes the secrets of the
\* properties once each, in order, and then ends: what it has taken is at
\* any time a prefix of the secrets supplied, and all of them once the
\* constructor has returned.
C20_ConstructorVisitsEachSecretOnce ==
  /\ Len(container.visited) <= Len(container.supplied)
  /\ \A i \in DOMAIN container.visited :
       container.visited[i] = container.supplied[i]
  /\ container.pc \in {"ready", "rendered"}
       => container.visited = container.supplied

====
